---- MODULE Spec2Model ----
(***************************************************************************)
(* Model of the HMS hospital-registration core: the validation and         *)
(* registration service (app/services/hospital_service.py), the SQLite     *)
(* persistence gateway (app/repositories/hospital_repository.py) over the  *)
(* hospitals table (app/database/schema.py), the schema migrator, the web  *)
(* routes (app/web/routes.py) and concurrent callers of the service on the *)
(* shared connection (app/database/connection.py), whose own methods and   *)
(* the DI container (app/container.py) are modelled step by step.          *)
(*                                                                         *)
(* Text values are sequences of one-character strings, so that strip() and *)
(* the three regular expressions are computed rather than assumed.  The    *)
(* Python value None of Hospital.id is the integer 0; SQLite assigns       *)
(* AUTOINCREMENT ids from 1.  created_at / updated_at are left out: no     *)
(* operation of the service or the gateway reads them.                     *)
(***************************************************************************)
EXTENDS Integers, Sequences, FiniteSets, TLC

VARIABLES
    rows,       \* the hospitals table: a set of stored records
    seq,        \* the AUTOINCREMENT counter of the hospitals table
    pc,         \* "idle", or "returned" when a call has just come back
    call,       \* the call that has just returned: operation, input, outcome
    prev,       \* the outcome of the call before a repeated call
    db,         \* schema objects and ledger: committed, and as the connection sees them
    migrations, \* the MIGRATIONS list of the running release
    threads,    \* the concurrent callers of register_hospital: position and locals
    pending,    \* rows inserted on the shared connection and not yet committed
    database,   \* the DatabaseConnection object: _connection, _lock, and the
                \* sqlite3 connections opened and closed so far
    callers,    \* the concurrent callers of DatabaseConnection: position and locals
    ioc,        \* the DIContainer: _singletons, _factories, _singleton_flags, and
                \* the objects built and handed out so far
    resolvers   \* the concurrent callers of DIContainer.resolve: position and locals

\* the objects of the composition root, left alone by the calls on the
\* service, the gateway, the routes and the migrator
components == <<database, callers, ioc, resolvers>>

vars == <<rows, seq, pc, call, prev, db, migrations, threads, pending, components>>

None == 0

Min(S) == CHOOSE x \in S : \A y \in S : x <= y

Max(S) == CHOOSE x \in S : \A y \in S : x >= y

(***************************************************************************)
(* str.strip(): drops leading and trailing whitespace.                     *)
(***************************************************************************)
Whitespace == {" ", "\t", "\n"}

strip(s) ==
    LET keep == {i \in 1..Len(s) : s[i] \notin Whitespace}
    IN  IF keep = {} THEN <<>> ELSE SubSeq(s, Min(keep), Max(keep))

(***************************************************************************)
(* Character classes of the regular expressions, over the characters the   *)
(* inputs of this model are written with.                                  *)
(***************************************************************************)
Digits == {"0", "1", "2", "3", "4", "5", "6", "7", "8", "9"}

Letters == {"a", "b", "c", "d", "e", "h", "i", "l", "m", "n", "o", "p", "r",
            "s", "t", "u", "y", "A", "C", "D", "G", "I", "L", "M", "R", "S", "T"}

WordChars == Letters \cup Digits \cup {"_"}

AllIn(s, C) == \A i \in 1..Len(s) : s[i] \in C

\* _EMAIL_RE = ^[\w.%+\-]+@[\w.\-]+\.[a-zA-Z]{2,}$
EMAIL_RE(s) ==
    \E at \in 1..Len(s) : \E dot \in (at + 1)..Len(s) :
        /\ s[at] = "@"
        /\ s[dot] = "."
        /\ at > 1
        /\ AllIn(SubSeq(s, 1, at - 1), WordChars \cup {".", "%", "+", "-"})
        /\ dot > at + 1
        /\ AllIn(SubSeq(s, at + 1, dot - 1), WordChars \cup {".", "-"})
        /\ Len(s) - dot >= 2
        /\ AllIn(SubSeq(s, dot + 1, Len(s)), Letters)

\* _PHONE_RE = ^\+?\d{7,15}$
PHONE_RE(s) ==
    LET d == IF Len(s) > 0 /\ s[1] = "+" THEN SubSeq(s, 2, Len(s)) ELSE s
    IN  Len(d) >= 7 /\ Len(d) <= 15 /\ AllIn(d, Digits)

\* _PIN_RE = ^[A-Z0-9\s\-]{4,10}$ with re.IGNORECASE
PIN_RE(s) ==
    /\ Len(s) >= 4
    /\ Len(s) <= 10
    /\ AllIn(s, Letters \cup Digits \cup Whitespace \cup {"-"})

(***************************************************************************)
(* ServiceResult                                                           *)
(***************************************************************************)
NoHospital == [id |-> None]

Msg(text, arg, num) == [text |-> text, arg |-> arg, num |-> num]

\* ServiceResult.ok(message, data)
ok(message, data, calls) ==
    [kind |-> "result", success |-> TRUE, message |-> message,
     data |-> data, calls |-> calls]

\* ServiceResult.fail(message)
fail(message, calls) ==
    [kind |-> "result", success |-> FALSE, message |-> message,
     data |-> NoHospital, calls |-> calls]

\* an exception leaving the called method: no ServiceResult is returned
raise(exc, calls) ==
    [kind |-> "raise", success |-> FALSE, message |-> Msg("", <<exc>>, 0),
     data |-> NoHospital, calls |-> calls]

(***************************************************************************)
(* The hospitals table: constraints of SQL_CREATE_HOSPITALS and the two    *)
(* unique indexes.  Text comparison in SQLite is exact (BINARY collation). *)
(***************************************************************************)
UNIQUE_REG == "UNIQUE constraint failed: hospitals.registration_number"

UNIQUE_LICENSE == "UNIQUE constraint failed: hospitals.license_number"

CHECK_BEDS == "CHECK constraint failed: total_beds > 0"

\* the table without the unique index on license_number
constraint_violations_no_license_index(h, others) ==
    (IF h.total_beds > 0 THEN {} ELSE {"CHECK constraint failed: total_beds > 0"})
    \cup (IF \E r \in others : r.registration_number = h.registration_number
          THEN {"UNIQUE constraint failed: hospitals.registration_number"} ELSE {})

\* the constraint violations of writing h as a row, given the other rows
constraint_violations(h, others) ==
    (IF h.total_beds > 0 THEN {} ELSE {CHECK_BEDS})
    \cup (IF \E r \in others : r.registration_number = h.registration_number
          THEN {UNIQUE_REG} ELSE {})
    \cup (IF \E r \in others : r.license_number = h.license_number
          THEN {UNIQUE_LICENSE} ELSE {})

\* injected storage faults (I/O) and the gateway calls they can hit
IOErrors == {"disk I/O error", "database is locked"}

ConstraintErrors == {UNIQUE_REG, UNIQUE_LICENSE, CHECK_BEDS}

FaultPoints == {"exists_registration_number", "exists_license_number", "add"}

\* the exception a statement raises: the injected one, else one of the
\* violated constraints (which one SQLite reports first is left open)
Raised(violated, exc) == IF exc \in violated THEN exc ELSE CHOOSE c \in violated : TRUE

(***************************************************************************)
(* HospitalRepository                                                      *)
(***************************************************************************)
\* _hospital_to_params and _INSERT_SQL: every column but id comes from h
hospital_to_params(h, id) == [h EXCEPT !.id = id]

\* add whose statement replaces the table's content by the new row
add_replacing(h, rws, sq, fault, exc, calls) ==
    LET trace == Append(calls, "add")
    IN  IF fault = "add"
        THEN [out |-> raise(exc, trace), rows |-> rws, seq |-> sq]
        ELSE LET saved == hospital_to_params(h, sq + 1)
             IN  [out |-> ok(Msg("", <<>>, 0), saved, trace),
                  rows |-> {saved}, seq |-> sq + 1]

\* HospitalRepository.add
add(h, rws, sq, fault, exc, calls) ==
    LET violated == constraint_violations(h, rws)
        trace == Append(calls, "add")
    IN  IF fault = "add"
        THEN [out |-> raise(exc, trace), rows |-> rws, seq |-> sq]
        ELSE IF violated # {}
        THEN [out |-> raise(Raised(violated, exc), trace), rows |-> rws, seq |-> sq]
        ELSE LET saved == hospital_to_params(h, sq + 1)
             IN  [out |-> ok(Msg("", <<>>, 0), saved, trace),
                  rows |-> rws \cup {saved}, seq |-> sq + 1]

\* update without the guard on hospital.id: the UPDATE runs and matches no row
update_unguarded(h, rws, sq, fault, exc, calls) ==
    LET target == {r \in rws : r.id = h.id}
        violated == IF target = {} THEN {}
                    ELSE constraint_violations(h, rws \ target)
        trace == Append(calls, "update")
    IN  IF fault = "update"
        THEN [out |-> raise(exc, trace), rows |-> rws, seq |-> sq]
        ELSE IF violated # {}
        THEN [out |-> raise(Raised(violated, exc), trace), rows |-> rws, seq |-> sq]
        ELSE [out |-> ok(Msg("", <<>>, 0), h, trace),
              rows |-> IF target = {} THEN rws ELSE (rws \ target) \cup {h},
              seq |-> sq]

\* update that stores the entity as a new row when its id matches none
update_or_insert(h, rws, sq, fault, exc, calls) ==
    LET target == {r \in rws : r.id = h.id}
        violated == constraint_violations(h, rws \ target)
        trace == Append(calls, "update")
    IN  IF h.id = None
        THEN [out |-> raise("ValueError: Cannot update a Hospital without an id.", calls),
              rows |-> rws, seq |-> sq]
        ELSE IF fault = "update"
        THEN [out |-> raise(exc, trace), rows |-> rws, seq |-> sq]
        ELSE IF violated # {}
        THEN [out |-> raise(Raised(violated, exc), trace), rows |-> rws, seq |-> sq]
        ELSE [out |-> ok(Msg("", <<>>, 0), h, trace),
              rows |-> (rws \ target) \cup {h},
              seq |-> sq]

\* HospitalRepository.update with _UPDATE_SQL
update(h, rws, sq, fault, exc, calls) ==
    LET target == {r \in rws : r.id = h.id}
        violated == IF target = {} THEN {}
                    ELSE constraint_violations(h, rws \ target)
        trace == Append(calls, "update")
    IN  IF h.id = None
        THEN [out |-> raise("ValueError: Cannot update a Hospital without an id.", calls),
              rows |-> rws, seq |-> sq]
        ELSE IF fault = "update"
        THEN [out |-> raise(exc, trace), rows |-> rws, seq |-> sq]
        ELSE IF violated # {}
        THEN [out |-> raise(Raised(violated, exc), trace), rows |-> rws, seq |-> sq]
        ELSE [out |-> ok(Msg("", <<>>, 0), h, trace),
              rows |-> IF target = {} THEN rws ELSE (rws \ target) \cup {h},
              seq |-> sq]

\* exists_registration_number that never excludes a record
exists_registration_number_any(rws, reg_no, exclude_id) ==
    \E r \in rws : r.registration_number = reg_no

\* HospitalRepository.exists_registration_number
exists_registration_number(rws, reg_no, exclude_id) ==
    IF exclude_id # None
    THEN \E r \in rws : r.registration_number = reg_no /\ r.id # exclude_id
    ELSE \E r \in rws : r.registration_number = reg_no

\* HospitalRepository.exists_license_number
exists_license_number(rws, license_no, exclude_id) ==
    IF exclude_id # None
    THEN \E r \in rws : r.license_number = license_no /\ r.id # exclude_id
    ELSE \E r \in rws : r.license_number = license_no

(***************************************************************************)
(* ORDER BY hospital_name: BINARY collation compares texts code point by   *)
(* code point; rows of equal name come out in rowid order.                 *)
(***************************************************************************)
CodePoints ==
    << " ", "%", "+", "-", ".",
       "0", "1", "2", "3", "4", "5", "6", "7", "8", "9", "@",
       "A", "C", "D", "G", "I", "L", "M", "R", "S", "T", "_",
       "a", "b", "c", "d", "e", "h", "i", "l", "m", "n", "o", "p", "r",
       "s", "t", "u", "y" >>

Ord(c) == CHOOSE i \in 1..Len(CodePoints) : CodePoints[i] = c

\* a sorts strictly before b
text_less(a, b) ==
    \E i \in 1..(Len(a) + 1) :
        /\ \A j \in 1..(i - 1) : j <= Len(b) /\ a[j] = b[j]
        /\ IF i > Len(a) THEN i <= Len(b)
           ELSE i <= Len(b) /\ Ord(a[i]) < Ord(b[i])

\* the rows of a result set in the order of ORDER BY hospital_name
RECURSIVE order_by_hospital_name(_)
order_by_hospital_name(S) ==
    IF S = {} THEN <<>>
    ELSE LET first == CHOOSE r \in S : \A o \in S \ {r} :
                          \/ text_less(r.hospital_name, o.hospital_name)
                          \/ (r.hospital_name = o.hospital_name /\ r.id < o.id)
         IN  <<first>> \o order_by_hospital_name(S \ {first})

\* HospitalRepository.find_by_id (NoHospital: the Python value None)
find_by_id(rws, hospital_id) ==
    IF \E r \in rws : r.id = hospital_id
    THEN CHOOSE r \in rws : r.id = hospital_id
    ELSE NoHospital

\* find_all that lists the active rows whatever active_only says
find_all_active(rws, active_only) ==
    order_by_hospital_name({r \in rws : r.is_active})

\* HospitalRepository.find_all
find_all(rws, active_only) ==
    order_by_hospital_name({r \in rws : active_only => r.is_active})

\* the case folding of LIKE: ASCII letters compare without regard to case
fold(c) ==
    CASE c = "A" -> "a" [] c = "C" -> "c" [] c = "D" -> "d" [] c = "G" -> "g"
      [] c = "I" -> "i" [] c = "L" -> "l" [] c = "M" -> "m" [] c = "R" -> "r"
      [] c = "S" -> "s" [] c = "T" -> "t" [] OTHER -> c

\* text LIKE pattern: % stands for any run of characters, _ for any one
RECURSIVE like(_, _)
like(text, pattern) ==
    IF pattern = <<>> THEN text = <<>>
    ELSE IF Head(pattern) = "%"
    THEN like(text, Tail(pattern)) \/ (text # <<>> /\ like(Tail(text), pattern))
    ELSE /\ text # <<>>
         /\ (Head(pattern) = "_" \/ fold(Head(pattern)) = fold(Head(text)))
         /\ like(Tail(text), Tail(pattern))

\* HospitalRepository.search; an Optional[int] is <<>> or <<n>>, and an
\* absent or empty text is <<>> (the code tests "if name:")
search(rws, name, hospital_id, city, active_only) ==
    order_by_hospital_name(
        {r \in rws :
            /\ active_only => r.is_active
            /\ hospital_id # <<>> => r.id = hospital_id[1]
            /\ name # <<>> => like(r.hospital_name, <<"%">> \o name \o <<"%">>)
            /\ city # <<>> => like(r.city, <<"%">> \o city \o <<"%">>)})

(***************************************************************************)
(* HospitalService                                                         *)
(***************************************************************************)
current_year == 2026

\* the mandatory text fields of _validate, in the order of the loop
mandatory(h) ==
    << [value |-> strip(h.hospital_name),       label |-> "Hospital Name"],
       [value |-> strip(h.registration_number), label |-> "Registration Number"],
       [value |-> strip(h.hospital_type),       label |-> "Hospital Type"],
       [value |-> strip(h.specialization_type), label |-> "Specialization Type"],
       [value |-> strip(h.address_line1),       label |-> "Address Line 1"],
       [value |-> strip(h.city),                label |-> "City"],
       [value |-> strip(h.state),               label |-> "State"],
       [value |-> strip(h.pin_code),            label |-> "PIN Code"],
       [value |-> strip(h.country),             label |-> "Country"],
       [value |-> strip(h.phone_primary),       label |-> "Primary Phone"],
       [value |-> strip(h.emergency_contact),   label |-> "Emergency Contact"],
       [value |-> strip(h.email),               label |-> "Email"],
       [value |-> strip(h.administrator_name),  label |-> "Administrator Name"],
       [value |-> strip(h.license_number),      label |-> "License Number"] >>

\* the field checks without the upper bound on icu_beds and the lower bound
\* on established_year
field_checks_unbounded(h) ==
    LET m == mandatory(h)
        missing == {i \in 1..Len(m) : m[i].value = <<>>}
    IN  IF missing # {}
        THEN fail(Msg("{} is required.", <<m[Min(missing)].label>>, 0), <<>>)
        ELSE IF h.total_beds <= 0
        THEN fail(Msg("Total Beds must be greater than 0.", <<>>, 0), <<>>)
        ELSE IF h.icu_beds < 0
        THEN fail(Msg("ICU Beds cannot be negative.", <<>>, 0), <<>>)
        ELSE IF h.operation_theaters < 0
        THEN fail(Msg("Operation Theaters cannot be negative.", <<>>, 0), <<>>)
        ELSE IF ~(h.established_year <= current_year)
        THEN fail(Msg("Established Year must be between 1800 and {}.", <<>>, current_year), <<>>)
        ELSE IF ~EMAIL_RE(strip(h.email))
        THEN fail(Msg("Email address format is invalid.", <<>>, 0), <<>>)
        ELSE IF ~PHONE_RE(strip(h.phone_primary))
        THEN fail(Msg("Primary Phone number format is invalid.", <<>>, 0), <<>>)
        ELSE IF ~PHONE_RE(strip(h.emergency_contact))
        THEN fail(Msg("Emergency Contact format is invalid.", <<>>, 0), <<>>)
        ELSE IF ~PIN_RE(strip(h.pin_code))
        THEN fail(Msg("PIN Code format is invalid.", <<>>, 0), <<>>)
        ELSE ok(Msg("Success", <<>>, 0), NoHospital, <<>>)

\* HospitalService._validate, the checks that read only the entity
\* (mandatory fields, ranges, formats): the first failing one returns
field_checks(h) ==
    LET m == mandatory(h)
        missing == {i \in 1..Len(m) : m[i].value = <<>>}
    IN  IF missing # {}
        THEN fail(Msg("{} is required.", <<m[Min(missing)].label>>, 0), <<>>)
        ELSE IF h.total_beds <= 0
        THEN fail(Msg("Total Beds must be greater than 0.", <<>>, 0), <<>>)
        ELSE IF h.icu_beds < 0
        THEN fail(Msg("ICU Beds cannot be negative.", <<>>, 0), <<>>)
        ELSE IF h.icu_beds > h.total_beds
        THEN fail(Msg("ICU Beds cannot exceed Total Beds.", <<>>, 0), <<>>)
        ELSE IF h.operation_theaters < 0
        THEN fail(Msg("Operation Theaters cannot be negative.", <<>>, 0), <<>>)
        ELSE IF ~(1800 <= h.established_year /\ h.established_year <= current_year)
        THEN fail(Msg("Established Year must be between 1800 and {}.", <<>>, current_year), <<>>)
        ELSE IF ~EMAIL_RE(strip(h.email))
        THEN fail(Msg("Email address format is invalid.", <<>>, 0), <<>>)
        ELSE IF ~PHONE_RE(strip(h.phone_primary))
        THEN fail(Msg("Primary Phone number format is invalid.", <<>>, 0), <<>>)
        ELSE IF ~PHONE_RE(strip(h.emergency_contact))
        THEN fail(Msg("Emergency Contact format is invalid.", <<>>, 0), <<>>)
        ELSE IF ~PIN_RE(strip(h.pin_code))
        THEN fail(Msg("PIN Code format is invalid.", <<>>, 0), <<>>)
        ELSE ok(Msg("Success", <<>>, 0), NoHospital, <<>>)

\* _validate with the uniqueness queries sent before the field checks
validate_queries_first(h, rws, fault, exc) ==
    LET checked == field_checks(h)
        q2 == <<"exists_registration_number", "exists_license_number">>
    IN  IF exists_registration_number(rws, strip(h.registration_number), h.id)
        THEN fail(Msg("Registration Number '{}' is already in use.",
                      h.registration_number, 0), q2)
        ELSE IF exists_license_number(rws, strip(h.license_number), h.id)
        THEN fail(Msg("License Number '{}' is already in use.",
                      h.license_number, 0), q2)
        ELSE IF ~checked.success
        THEN [checked EXCEPT !.calls = q2]
        ELSE ok(Msg("Success", <<>>, 0), NoHospital, q2)

\* HospitalService._validate: field checks, then the two uniqueness queries
validate(h, rws, fault, exc) ==
    LET checked == field_checks(h)
        q1 == <<"exists_registration_number">>
        q2 == <<"exists_registration_number", "exists_license_number">>
    IN  IF ~checked.success
        THEN checked
        ELSE IF fault = "exists_registration_number"
        THEN raise(exc, q1)
        ELSE IF exists_registration_number(rws, strip(h.registration_number), h.id)
        THEN fail(Msg("Registration Number '{}' is already in use.",
                      h.registration_number, 0), q1)
        ELSE IF fault = "exists_license_number"
        THEN raise(exc, q2)
        ELSE IF exists_license_number(rws, strip(h.license_number), h.id)
        THEN fail(Msg("License Number '{}' is already in use.",
                      h.license_number, 0), q2)
        ELSE ok(Msg("Success", <<>>, 0), NoHospital, q2)

\* register_hospital without the early return on a failed validation
register_hospital_no_early_return(h, rws, sq, fault, exc) ==
    LET validation == validate(h, rws, fault, exc)
        a == add(h, rws, sq, fault, exc, validation.calls)
    IN  IF validation.kind = "raise"
        THEN [out |-> validation, rows |-> rws, seq |-> sq]
        ELSE IF a.out.kind = "raise"
        THEN [out |-> fail(Msg("Database error: {}", a.out.message.arg, 0), a.out.calls),
              rows |-> a.rows, seq |-> a.seq]
        ELSE [out |-> IF validation.success
                      THEN ok(Msg("Hospital '{}' registered successfully (ID: {}).",
                                  a.out.data.hospital_name, a.out.data.id),
                              a.out.data, a.out.calls)
                      ELSE validation,
              rows |-> a.rows, seq |-> a.seq]

\* HospitalService.register_hospital: _validate runs outside the try block
register_hospital(h, rws, sq, fault, exc) ==
    LET validation == validate(h, rws, fault, exc)
        a == add(h, rws, sq, fault, exc, validation.calls)
    IN  IF validation.kind = "raise" \/ ~validation.success
        THEN [out |-> validation, rows |-> rws, seq |-> sq]
        ELSE IF a.out.kind = "raise"
        THEN [out |-> fail(Msg("Database error: {}", a.out.message.arg, 0), a.out.calls),
              rows |-> a.rows, seq |-> a.seq]
        ELSE [out |-> ok(Msg("Hospital '{}' registered successfully (ID: {}).",
                             a.out.data.hospital_name, a.out.data.id),
                         a.out.data, a.out.calls),
              rows |-> a.rows, seq |-> a.seq]

\* HospitalService.get_hospital
get_hospital(rws, hospital_id) == find_by_id(rws, hospital_id)

\* HospitalService.get_all_hospitals
get_all_hospitals(rws) == find_all(rws, TRUE)

\* HospitalService.is_first_run
is_first_run(rws) == Len(find_all(rws, FALSE)) = 0

\* the public methods class HospitalService defines
HospitalService ==
    {"register_hospital", "get_hospital", "get_all_hospitals", "is_first_run"}

\* the attribute lookup svc.<name> of a route: the bound method, or the
\* AttributeError of a name the object does not have
getattr(name) ==
    IF name \in HospitalService
    THEN [kind |-> "method", name |-> name]
    ELSE [kind |-> "raise", name |-> name]

(***************************************************************************)
(* The web routes (app/web/routes.py).  A form is the posted field values  *)
(* (numbers already as the text of an integer) and whether one of the      *)
(* number fields is not the text of an integer.                            *)
(***************************************************************************)
NoMsg == Msg("", <<>>, 0)

Response(kind, target, message, hospitals) ==
    [kind |-> kind, target |-> target, message |-> message, hospitals |-> hospitals]

\* an exception leaving the route: the request ends in an error
AttributeError(name) ==
    Response("raise", "AttributeError",
             Msg("'HospitalService' object has no attribute '{}'", <<name>>, 0), <<>>)

\* Hospital(id=..., hospital_name=fd.get("hospital_name", "").strip(), ...)
hospital_from_form(fd, id) ==
    [hospital_name       |-> strip(fd.hospital_name),
     registration_number |-> strip(fd.registration_number),
     hospital_type       |-> strip(fd.hospital_type),
     specialization_type |-> strip(fd.specialization_type),
     address_line1       |-> strip(fd.address_line1),
     city                |-> strip(fd.city),
     state               |-> strip(fd.state),
     pin_code            |-> strip(fd.pin_code),
     country             |-> strip(fd.country),
     address_line2       |-> strip(fd.address_line2),
     phone_primary       |-> strip(fd.phone_primary),
     phone_alternate     |-> strip(fd.phone_alternate),
     emergency_contact   |-> strip(fd.emergency_contact),
     email               |-> strip(fd.email),
     website             |-> strip(fd.website),
     total_beds          |-> fd.total_beds,
     icu_beds            |-> fd.icu_beds,
     operation_theaters  |-> fd.operation_theaters,
     administrator_name  |-> strip(fd.administrator_name),
     license_number      |-> strip(fd.license_number),
     accreditation       |-> strip(fd.accreditation),
     established_year    |-> fd.established_year,
     gstin               |-> strip(fd.gstin),
     id                  |-> id,
     is_active           |-> TRUE]

\* routes.index
index(rws) ==
    LET search_hospitals == getattr("search_hospitals")
    IN  IF is_first_run(rws)
        THEN Response("redirect", "web.register", NoMsg, <<>>)
        ELSE IF search_hospitals.kind = "raise"
        THEN AttributeError(search_hospitals.name)
        ELSE Response("render", "home.html", NoMsg, <<>>)  \* no such method to call

\* routes.register, after svc.register_hospital(hospital) has come back with r:
\* a success redirects to the index, a failure shows the form with the
\* message, an exception leaves the route
registered(r, page) ==
    [out |-> IF r.out.kind = "raise"
             THEN Response("raise", "Exception", r.out.message, <<>>)
             ELSE IF r.out.success
             THEN Response("redirect", "web.index", r.out.message, <<>>)
             ELSE Response("render", page, r.out.message, <<>>),
     rows |-> r.rows, seq |-> r.seq]

\* routes.register
register(rws, sq, method, form, fault, exc) ==
    LET page == "hospital_registration.html"
    IN  IF method = "GET"
        THEN [out |-> Response("render", page, NoMsg, <<>>), rows |-> rws, seq |-> sq]
        ELSE IF form.bad_number
        THEN [out |-> Response("render", page, Msg("Invalid input: {}", <<>>, 0), <<>>),
              rows |-> rws, seq |-> sq]
        ELSE registered(register_hospital(hospital_from_form(form.fd, None),
                                          rws, sq, fault, exc), page)

\* routes.dashboard
dashboard(rws, hospital_id) ==
    LET hospital == get_hospital(rws, hospital_id)
    IN  IF hospital = NoHospital
        THEN Response("redirect", "web.index", Msg("Hospital not found.", <<>>, 0), <<>>)
        ELSE Response("render", "hospital_landing.html", NoMsg, <<hospital>>)

\* routes.edit_hospital
edit_hospital(rws, sq, hospital_id, method, form) ==
    LET hospital == get_hospital(rws, hospital_id)
        update_hospital == getattr("update_hospital")
        page == "hospital_edit.html"
    IN  IF hospital = NoHospital
        THEN [out |-> Response("redirect", "web.index",
                               Msg("Hospital not found.", <<>>, 0), <<>>),
              rows |-> rws, seq |-> sq]
        ELSE IF method = "GET"
        THEN [out |-> Response("render", page, NoMsg, <<hospital>>),
              rows |-> rws, seq |-> sq]
        ELSE IF form.bad_number
        THEN [out |-> Response("render", page, Msg("Invalid input: {}", <<>>, 0),
                               <<hospital>>),
              rows |-> rws, seq |-> sq]
        ELSE IF update_hospital.kind = "raise"
        THEN [out |-> AttributeError(update_hospital.name), rows |-> rws, seq |-> sq]
        ELSE [out |-> Response("render", page, NoMsg, <<hospital>>),  \* no such method
              rows |-> rws, seq |-> sq]

(***************************************************************************)
(* SchemaManager over the sqlite3 connection.  The connection opens a      *)
(* transaction implicitly before a DML statement only; a DDL statement run *)
(* with no transaction open takes effect at once.  A statement is          *)
(* [kind, object, version]: the object it creates or the data it writes,   *)
(* and the ledger version it inserts (0: none).                            *)
(***************************************************************************)
DDL(object) == [kind |-> "DDL", object |-> object, version |-> 0]

DML(object) == [kind |-> "DML", object |-> object, version |-> 0]

SQL_CREATE_SCHEMA_VERSION == DDL("table schema_version")

SQL_CREATE_HOSPITALS == DDL("table hospitals")

SQL_CREATE_HOSPITAL_UPDATED_TRIGGER == DDL("trigger trg_hospital_updated_at")

SQL_CREATE_HOSPITALS_IDX_REG == DDL("index idx_hospitals_reg_no")

SQL_CREATE_HOSPITALS_IDX_LICENSE == DDL("index idx_hospitals_license")

\* INSERT INTO schema_version (version, description) VALUES (?, ?)
INSERT_VERSION(version) == [kind |-> "DML", object |-> "", version |-> version]

MIGRATIONS ==
    << [version |-> 1,
        statements |-> << SQL_CREATE_SCHEMA_VERSION,
                          SQL_CREATE_HOSPITALS,
                          SQL_CREATE_HOSPITAL_UPDATED_TRIGGER,
                          SQL_CREATE_HOSPITALS_IDX_REG,
                          SQL_CREATE_HOSPITALS_IDX_LICENSE >>] >>

\* entries that later releases append to MIGRATIONS ("add new entries;
\* never modify existing ones"); the version numbers leave a gap
LaterEntries ==
    << [version |-> 2, statements |-> << DML("v2 data"), DDL("v2 column") >>],
       [version |-> 4, statements |-> << DDL("v4 table"), DML("v4 data") >>],
       [version |-> 5, statements |-> << DDL("v5 index") >>] >>

MaxLaterEntries == 2

EmptyStore == [effects |-> {}, ledger |-> {}]

\* sqlite3.Connection.execute
execute(d, stmt) ==
    LET begun == d.in_transaction \/ stmt.kind = "DML"
        w == [effects |-> d.working.effects
                            \cup (IF stmt.object = "" THEN {} ELSE {stmt.object}),
              ledger  |-> d.working.ledger
                            \cup (IF stmt.version = 0 THEN {} ELSE {stmt.version})]
    IN  [working |-> w,
         committed |-> IF begun THEN d.committed ELSE w,
         in_transaction |-> begun]

\* sqlite3.Connection.commit
commit(d) == [working |-> d.working, committed |-> d.working, in_transaction |-> FALSE]

\* sqlite3.Connection.rollback
rollback(d) == [working |-> d.committed, committed |-> d.committed, in_transaction |-> FALSE]

\* SchemaManager._ensure_version_table
ensure_version_table(d) == commit(execute(d, SQL_CREATE_SCHEMA_VERSION))

\* the current version read with MIN for MAX
get_current_version_min(d) ==
    IF d.working.ledger = {} THEN 0 ELSE Min(d.working.ledger)

\* SchemaManager._get_current_version: SELECT COALESCE(MAX(version), 0)
get_current_version(d) == Max(d.working.ledger \cup {0})

Event(version, step, what) == [version |-> version, step |-> step, what |-> what]

\* the try block of migrate for one migration m, from its k-th step on: the
\* statements, the ledger insert, the commit.  The step named by fault raises.
RECURSIVE try_block(_, _, _, _, _)
try_block(m, k, d, fault, trace) ==
    LET n == Len(m.statements)
    IN  IF fault = [version |-> m.version, step |-> k]
        THEN [ok |-> FALSE, db |-> d, trace |-> trace]
        ELSE IF k = n + 1 /\ m.version \in d.working.ledger
        THEN [ok |-> FALSE, db |-> d, trace |-> trace]  \* version is the PRIMARY KEY
        ELSE IF k <= n
        THEN try_block(m, k + 1, execute(d, m.statements[k]), fault,
                       Append(trace, Event(m.version, k, "statement")))
        ELSE IF k = n + 1
        THEN try_block(m, k + 1, execute(d, INSERT_VERSION(m.version)), fault,
                       Append(trace, Event(m.version, k, "insert version")))
        ELSE [ok |-> TRUE, db |-> commit(d),
              trace |-> Append(trace, Event(m.version, k, "commit"))]

\* the except block without conn.rollback()
except_block_no_rollback(m, d, trace) ==
    [out |-> [kind |-> "raise", version |-> m.version],
     db |-> d,
     trace |-> Append(trace, Event(m.version, 0, "rollback"))]

\* the except block of migrate
except_block(m, d, trace) ==
    [out |-> [kind |-> "raise", version |-> m.version],
     db |-> rollback(d),
     trace |-> Append(trace, Event(m.version, 0, "rollback"))]

\* the skip test with < for <=
already_applied_strict(version, current_version) == version < current_version

\* the skip test of a loop that applies only the version next to the current one
already_applied_unless_next(version, current_version) == version # current_version + 1

\* the migration is skipped as already applied
already_applied(version, current_version) == version <= current_version

\* the loop of migrate over MIGRATIONS, from the i-th entry on
RECURSIVE apply_pending(_, _, _, _, _, _)
apply_pending(migs, i, current_version, d, fault, trace) ==
    IF i > Len(migs)
    THEN [out |-> [kind |-> "return", version |-> 0], db |-> d, trace |-> trace]
    ELSE IF already_applied(migs[i].version, current_version)
    THEN apply_pending(migs, i + 1, current_version, d, fault, trace)
    ELSE LET t == try_block(migs[i], 1, d, fault, trace)
         IN  IF t.ok
             THEN apply_pending(migs, i + 1, current_version, t.db, fault, t.trace)
             ELSE except_block(migs[i], t.db, t.trace)

\* SchemaManager.migrate
migrate(d, migs, fault) ==
    LET ensured == ensure_version_table(d)
    IN  apply_pending(migs, 1, get_current_version(ensured), ensured, fault, <<>>)

(***************************************************************************)
(* Inputs: a Hospital as the presentation layer builds it (Hospital(...)   *)
(* with no id), varied in its identity fields (an entity that went through *)
(* add carries an id) and by at most two of the field changes below.       *)
(***************************************************************************)
R1 == <<"R", "1">>

R1sp == <<"R", "1", " ">>

R2 == <<"R", "2">>

L1 == <<"L", "1">>

L2 == <<"L", "2">>

Hospital ==
    [hospital_name       |-> <<"C", "a", "r", "e">>,
     registration_number |-> R1,
     hospital_type       |-> <<"T", "r", "u", "s", "t">>,
     specialization_type |-> <<"G", "e", "n", "e", "r", "a", "l">>,
     address_line1       |-> <<"1", " ", "M", "a", "i", "n">>,
     city                |-> <<"D", "e", "l", "h", "i">>,
     state               |-> <<"D", "e", "l", "h", "i">>,
     pin_code            |-> <<"1", "1", "0", "0", "0", "1">>,
     country             |-> <<"I", "n", "d", "i", "a">>,
     address_line2       |-> <<>>,
     phone_primary       |-> <<"9", "8", "7", "6", "5", "4", "3">>,
     phone_alternate     |-> <<>>,
     emergency_contact   |-> <<"+", "9", "1", "1", "2", "3", "4", "5">>,
     email               |-> <<"a", "@", "b", ".", "i", "n">>,
     website             |-> <<>>,
     total_beds          |-> 2,
     icu_beds            |-> 0,
     operation_theaters  |-> 0,
     administrator_name  |-> <<"D", "r", " ", "A">>,
     license_number      |-> L1,
     accreditation       |-> <<"N", "o", "n", "e">>,
     established_year    |-> 2000,
     gstin               |-> <<>>,
     id                  |-> None,
     is_active           |-> TRUE]

Changes ==
    << [field |-> "hospital_name",      value |-> <<" ">>],
       [field |-> "city",               value |-> <<>>],
       [field |-> "email",              value |-> <<>>],
       [field |-> "total_beds",         value |-> 0],
       [field |-> "icu_beds",           value |-> -1],
       [field |-> "icu_beds",           value |-> 3],
       [field |-> "operation_theaters", value |-> -1],
       [field |-> "established_year",   value |-> 1799],
       [field |-> "established_year",   value |-> 2027],
       [field |-> "email",              value |-> <<"a", "@", "b">>],
       [field |-> "phone_primary",      value |-> <<"9", "8", "7", "6", "5", "4">>],
       [field |-> "emergency_contact",  value |-> <<"+", "9", "1", "a", "2", "3", "4", "5">>],
       [field |-> "pin_code",           value |-> <<"1", "1", "0">>] >>

Change(h, i) == [h EXCEPT ![Changes[i].field] = Changes[i].value]

Identities ==
    {[Hospital EXCEPT !.registration_number = r, !.license_number = l, !.id = i] :
        r \in {R1, R1sp, R2}, l \in {L1, L2}, i \in {None, 1}}

Inputs ==
    Identities
    \cup {Change(h, i) : h \in Identities, i \in 1..Len(Changes)}
    \cup {Change(Change(h, i), j) : h \in {g \in Identities : g.id = None},
                                     i \in 1..Len(Changes), j \in 1..Len(Changes)}

\* entities at and around the bounds of the numeric fields
RangeInputs ==
    {[Hospital EXCEPT !.registration_number = n[1], !.license_number = n[2], !.id = i,
                      !.total_beds = b, !.icu_beds = c, !.operation_theaters = o,
                      !.established_year = y] :
        n \in {<<R1, L1>>, <<R2, L2>>}, i \in {None, 1}, b \in {0, 2},
        c \in {-1, 0, 2, 3}, o \in {-1, 0},
        y \in {1799, 1800, current_year, current_year + 1}}

\* the records the searches run over: names that differ in case only,
\* equal names, two cities, active and inactive
Asha == <<"A", "s", "h", "a">>

R3 == <<"R", "3">>

L3 == <<"L", "3">>

Salem == <<"S", "a", "l", "e", "m">>

SearchedInputs ==
    {[Hospital EXCEPT !.registration_number = n[1], !.license_number = n[2],
                      !.hospital_name = v[1], !.city = v[2], !.is_active = v[3]] :
        n \in {<<R1, L1>>, <<R2, L2>>, <<R3, L3>>},
        v \in {<<Hospital.hospital_name, Hospital.city, TRUE>>,
               <<<<"c", "a", "r", "e">>, Salem, TRUE>>,
               <<Asha, <<"d", "e", "l", "h", "i">>, FALSE>>,
               <<Hospital.hospital_name, Salem, FALSE>>}}

\* the criteria of a search
SearchNames == {<<>>, <<"c", "a", "r">>, <<"a">>, <<"_">>}

SearchIds == {<<>>, <<0>>, <<1>>}

SearchCities == {<<>>, <<"d", "e", "l">>}

\* the values and identifiers asked about in the existence checks
ExistsValues == {R1, R1sp, R2, L1, L2}

ExistsIds == {None, 1, 2}

\* the inputs of the calls made on the gateway directly
RepoInputs ==
    {[Hospital EXCEPT !.registration_number = r, !.license_number = l,
                      !.id = i, !.total_beds = b, !.is_active = a] :
        r \in {R1, R1sp, R2}, l \in {L1, L2}, i \in {None, 1, 2}, b \in {0, 2},
        a \in BOOLEAN}

\* the forms posted to the web routes: the fields as typed
FormFields ==
    LET typed == {[Hospital EXCEPT !.registration_number = r, !.license_number = l,
                                   !.hospital_name = n] :
                     r \in {R1, R1sp, R2}, l \in {L1, L2},
                     n \in {Hospital.hospital_name, Asha}}
    IN  typed \cup {Change(h, i) : h \in typed, i \in {4, 6}}

Forms ==
    {[fd |-> fd, bad_number |-> FALSE] : fd \in FormFields}
    \cup {[fd |-> Hospital, bad_number |-> TRUE]}

MaxHospitalId == 2

\* the storage fault of a call: none (the exception text then only picks
\* among violated constraints), or an I/O error at one gateway call
Faults ==
    {[point |-> "none", exc |-> e] : e \in ConstraintErrors}
    \cup {[point |-> p, exc |-> e] : p \in FaultPoints \cup {"update"}, e \in IOErrors}

(***************************************************************************)
(* State machine                                                           *)
(***************************************************************************)
NoOut == [kind |-> "none"]

\* the threads that call the service at the same time
Threads == {"t1", "t2"}

IdleThread == [pc |-> "idle", h |-> Hospital, calls |-> <<>>, saved |-> NoHospital,
               out |-> NoOut]

NoCall == [op |-> "none"]

\* the interface names main.py registers and resolves
Interfaces == {"DatabaseConnection", "IHospitalService"}

\* a thread that is not in DIContainer.resolve
IdleResolver == [pc |-> "idle", interface |-> "", instance |-> None, out |-> NoOut]

\* a thread that is in no method of DatabaseConnection
IdleCaller == [pc |-> "idle", op |-> "none", conn |-> None, out |-> NoOut]

Init ==
    /\ rows = {}
    /\ seq = 0
    /\ pc = "idle"
    /\ call = NoCall
    /\ prev = NoOut
    /\ db = [working |-> EmptyStore, committed |-> EmptyStore, in_transaction |-> FALSE]
    /\ migrations = MIGRATIONS
    /\ threads = [t \in Threads |-> IdleThread]
    /\ pending = {}
    /\ database = [connection |-> None, lock |-> "free", opened |-> 0, closed |-> {}]
    /\ callers = [t \in Threads |-> IdleCaller]
    /\ ioc = [singletons      |-> [n \in Interfaces |-> None],
              factories       |-> [n \in Interfaces |-> FALSE],
              singleton_flags |-> [n \in Interfaces |-> <<>>],
              objects         |-> 0,
              made            |-> [n \in Interfaces |-> 0],
              given           |-> [n \in Interfaces |-> <<>>]]
    /\ resolvers = [t \in Threads |-> IdleResolver]

Returned(op, h, f, r, again) ==
    /\ rows' = r.rows
    /\ seq' = r.seq
    /\ pc' = "returned"
    /\ call' = [op |-> op, h |-> h, fault |-> f, out |-> r.out,
                before |-> rows, again |-> again]
    /\ UNCHANGED <<db, migrations, threads, pending, components>>

\* a caller invokes HospitalService.register_hospital(h)
RegisterHospital(Hs) ==
    /\ pc = "idle"
    /\ \E h \in Hs : \E f \in Faults :
        /\ f.point # "update"
        /\ Returned("register_hospital", h, f,
                    register_hospital(h, rows, seq, f.point, f.exc), FALSE)
    /\ UNCHANGED prev

\* the caller submits the same entity once more (add has set its id when
\* the first call succeeded), under the same storage conditions
RegisterAgain ==
    /\ pc = "returned"
    /\ call.op = "register_hospital"
    /\ ~call.again
    /\ call.fault.point = "none"
    /\ LET h == IF call.out.kind = "result" /\ call.out.success
                THEN call.out.data ELSE call.h
       IN  Returned("register_hospital", h, call.fault,
                    register_hospital(h, rows, seq, call.fault.point, call.fault.exc),
                    TRUE)
    /\ prev' = call.out

\* a caller invokes HospitalRepository.add(h)
Add(Hs) ==
    /\ pc = "idle"
    /\ \E h \in Hs : \E f \in Faults :
        /\ f.point \in {"none", "add"}
        /\ Returned("add", h, f, add(h, rows, seq, f.point, f.exc, <<>>), FALSE)
    /\ UNCHANGED prev

\* a caller invokes HospitalRepository.update(h)
Update ==
    /\ pc = "idle"
    /\ \E h \in RepoInputs : \E f \in Faults :
        /\ f.point \in {"none", "update"}
        /\ Returned("update", h, f, update(h, rows, seq, f.point, f.exc, <<>>), FALSE)
    /\ UNCHANGED prev

Value(v) == [kind |-> "value", value |-> v]

\* a caller (the desktop bootstrapper, routes.index) asks is_first_run()
IsFirstRun ==
    /\ pc = "idle"
    /\ pc' = "returned"
    /\ call' = [op |-> "is_first_run", out |-> Value(is_first_run(rows)), before |-> rows]
    /\ UNCHANGED <<rows, seq, prev, db, migrations, threads, pending, components>>

\* a caller invokes HospitalRepository.search(name, hospital_id, city, active_only)
Search ==
    /\ pc = "idle"
    /\ \E name \in SearchNames : \E hospital_id \in SearchIds :
       \E city \in SearchCities : \E active_only \in BOOLEAN :
        /\ pc' = "returned"
        /\ call' = [op |-> "search", name |-> name, hospital_id |-> hospital_id,
                    city |-> city, active_only |-> active_only,
                    out |-> Value(search(rows, name, hospital_id, city, active_only)),
                    before |-> rows]
    /\ UNCHANGED <<rows, seq, prev, db, migrations, threads, pending, components>>

\* an existence check answers, or the storage layer raises under it
Existence(op, value, exclude_id, f, found) ==
    /\ pc' = "returned"
    /\ call' = [op |-> op, value |-> value, exclude_id |-> exclude_id, fault |-> f,
                out |-> IF f.point = op THEN raise(f.exc, <<op>>) ELSE Value(found),
                before |-> rows]
    /\ UNCHANGED <<rows, seq, prev, db, migrations, threads, pending, components>>

\* a caller invokes HospitalRepository.exists_registration_number(value, exclude_id)
ExistsRegistrationNumber ==
    /\ pc = "idle"
    /\ \E value \in ExistsValues : \E exclude_id \in ExistsIds : \E f \in Faults :
        /\ f.point \in {"none", "exists_registration_number"}
        /\ Existence("exists_registration_number", value, exclude_id, f,
                     exists_registration_number(rows, value, exclude_id))

\* a caller invokes HospitalRepository.exists_license_number(value, exclude_id)
ExistsLicenseNumber ==
    /\ pc = "idle"
    /\ \E value \in ExistsValues : \E exclude_id \in ExistsIds : \E f \in Faults :
        /\ f.point \in {"none", "exists_license_number"}
        /\ Existence("exists_license_number", value, exclude_id, f,
                     exists_license_number(rows, value, exclude_id))

\* the caller has taken the outcome
Return ==
    /\ pc = "returned"
    /\ pc' = "idle"
    /\ call' = NoCall
    /\ prev' = NoOut
    /\ UNCHANGED <<rows, seq, db, migrations, threads, pending, components>>

\* the storage fault of a migrate call: none, or the step of one migration
\* (a statement, the ledger insert, the commit) that raises
NoFault == [version |-> 0, step |-> 0]

MigrateFaults ==
    {NoFault} \cup
    UNION {{[version |-> migrations[i].version, step |-> k] :
                k \in 1..(Len(migrations[i].statements) + 2)} :
           i \in 1..Len(migrations)}

Migrated(f, r, again) ==
    /\ db' = r.db
    /\ pc' = "returned"
    /\ call' = [op |-> "migrate", fault |-> f, out |-> r.out, trace |-> r.trace,
                before |-> db, again |-> again]
    /\ UNCHANGED <<rows, seq, migrations, threads, pending, components>>

\* the bootstrapper calls SchemaManager(db).migrate() at startup
Migrate ==
    /\ pc = "idle"
    /\ \E f \in MigrateFaults : Migrated(f, migrate(db, migrations, f), FALSE)
    /\ UNCHANGED prev

\* migrate() is run once more on the same store by the same release
MigrateAgain ==
    /\ pc = "returned"
    /\ call.op = "migrate"
    /\ ~call.again
    /\ \E f \in MigrateFaults : Migrated(f, migrate(db, migrations, f), TRUE)
    /\ prev' = call.out

\* a later release, with one more entry in MIGRATIONS, is installed
Upgrade ==
    /\ pc = "idle"
    /\ Len(migrations) - Len(MIGRATIONS) < MaxLaterEntries
    /\ migrations' = Append(migrations,
                            LaterEntries[Len(migrations) - Len(MIGRATIONS) + 1])
    /\ UNCHANGED <<rows, seq, pc, call, prev, db, threads, pending, components>>

Responded(op, hospital_id, method, form, r) ==
    /\ rows' = r.rows
    /\ seq' = r.seq
    /\ pc' = "returned"
    /\ call' = [op |-> op, hospital_id |-> hospital_id, method |-> method,
                form |-> form, out |-> r.out, before |-> rows]
    /\ UNCHANGED <<prev, db, migrations, threads, pending, components>>

\* GET /
Index ==
    /\ pc = "idle"
    /\ Responded("index", None, "GET", [fd |-> Hospital, bad_number |-> FALSE],
                 [out |-> index(rows), rows |-> rows, seq |-> seq])

\* GET or POST /register
Register ==
    /\ pc = "idle"
    /\ \E method \in {"GET", "POST"} : \E form \in Forms : \E f \in Faults :
        /\ f.point # "update"
        /\ method = "GET" => (form.fd = Hospital /\ f.point = "none" /\ f.exc = UNIQUE_REG)
        /\ Responded("register", None, method, form,
                     register(rows, seq, method, form, f.point, f.exc))

\* GET /dashboard/<id>
Dashboard ==
    /\ pc = "idle"
    /\ \E hospital_id \in 1..MaxHospitalId :
        Responded("dashboard", hospital_id, "GET", [fd |-> Hospital, bad_number |-> FALSE],
                  [out |-> dashboard(rows, hospital_id), rows |-> rows, seq |-> seq])

\* GET or POST /hospital/<id>/edit
EditHospital ==
    /\ pc = "idle"
    /\ \E hospital_id \in 1..MaxHospitalId : \E method \in {"GET", "POST"} :
       \E form \in Forms :
        /\ method = "GET" => form.fd = Hospital
        /\ Responded("edit_hospital", hospital_id, method, form,
                     edit_hospital(rows, seq, hospital_id, method, form))

(***************************************************************************)
(* register_hospital called from several threads.  The container hands     *)
(* every caller the one HospitalRepository and the one sqlite3 connection  *)
(* (check_same_thread=False); the connection runs one statement at a time, *)
(* so a call is a sequence of atomic steps: the two uniqueness SELECTs,    *)
(* the INSERT, the commit.  A statement sees the committed rows and the    *)
(* rows the connection has inserted and not yet committed.                 *)
(***************************************************************************)
\* every thread on a connection of its own: a statement sees committed rows only
visible_committed_only(rws, pend) == rws

\* the rows a statement on the shared connection reads
visible(rws, pend) == rws \cup pend

\* the entities the concurrent callers submit
ThreadInputs ==
    {[Hospital EXCEPT !.registration_number = r, !.license_number = l, !.total_beds = b] :
        r \in {R1, R2}, l \in {L1, L2}, b \in {0, 2}}

Step(t, position, h, calls, saved, out) ==
    threads' = [threads EXCEPT ![t] = [pc |-> position, h |-> h, calls |-> calls,
                                       saved |-> saved, out |-> out]]

\* register_hospital is entered: the checks of _validate that need no query
ThreadCall(t) ==
    /\ threads[t].pc = "idle"
    /\ \E h \in ThreadInputs :
        LET checked == field_checks(h)
        IN  IF checked.success
            THEN Step(t, "exists_registration_number", h, <<>>, NoHospital, NoOut)
            ELSE Step(t, "done", h, <<>>, NoHospital, checked)
    /\ UNCHANGED <<rows, seq, pc, call, prev, db, migrations, pending, components>>

\* _validate: the query of exists_registration_number
ThreadExistsRegistrationNumber(t) ==
    LET th == threads[t]
        calls == Append(th.calls, "exists_registration_number")
    IN  /\ th.pc = "exists_registration_number"
        /\ IF exists_registration_number(visible(rows, pending),
                                         strip(th.h.registration_number), th.h.id)
           THEN Step(t, "done", th.h, calls, NoHospital,
                     fail(Msg("Registration Number '{}' is already in use.",
                              th.h.registration_number, 0), calls))
           ELSE Step(t, "exists_license_number", th.h, calls, NoHospital, NoOut)
        /\ UNCHANGED <<rows, seq, pc, call, prev, db, migrations, pending, components>>

\* _validate: the query of exists_license_number
ThreadExistsLicenseNumber(t) ==
    LET th == threads[t]
        calls == Append(th.calls, "exists_license_number")
    IN  /\ th.pc = "exists_license_number"
        /\ IF exists_license_number(visible(rows, pending),
                                    strip(th.h.license_number), th.h.id)
           THEN Step(t, "done", th.h, calls, NoHospital,
                     fail(Msg("License Number '{}' is already in use.",
                              th.h.license_number, 0), calls))
           ELSE Step(t, "insert", th.h, calls, NoHospital, NoOut)
        /\ UNCHANGED <<rows, seq, pc, call, prev, db, migrations, pending, components>>

\* add: conn.execute(_INSERT_SQL, params); an exception ends the call in
\* the except clause of register_hospital
ThreadInsert(t) ==
    LET th == threads[t]
        calls == Append(th.calls, "add")
        violated == constraint_violations(th.h, visible(rows, pending))
        saved == hospital_to_params(th.h, seq + 1)
    IN  /\ th.pc = "insert"
        /\ IF violated # {}
           THEN /\ \E exc \in ConstraintErrors :
                     Step(t, "done", th.h, calls, NoHospital,
                          fail(Msg("Database error: {}", <<Raised(violated, exc)>>, 0),
                               calls))
                /\ UNCHANGED <<seq, pending>>
           ELSE /\ Step(t, "commit", th.h, calls, saved, NoOut)
                /\ pending' = pending \cup {saved}
                /\ seq' = seq + 1
        /\ UNCHANGED <<rows, pc, call, prev, db, migrations, components>>

\* add: conn.commit(), hospital.id = cursor.lastrowid, and the success result
ThreadCommit(t) ==
    LET th == threads[t]
    IN  /\ th.pc = "commit"
        /\ rows' = rows \cup pending
        /\ pending' = {}
        /\ Step(t, "done", th.h, th.calls, th.saved,
                ok(Msg("Hospital '{}' registered successfully (ID: {}).",
                       th.saved.hospital_name, th.saved.id), th.saved, th.calls))
        /\ UNCHANGED <<seq, pc, call, prev, db, migrations, components>>

\* the caller has taken the result
ThreadReturn(t) ==
    /\ threads[t].pc = "done"
    /\ threads' = [threads EXCEPT ![t] = IdleThread]
    /\ UNCHANGED <<rows, seq, pc, call, prev, db, migrations, pending, components>>

NextThreads ==
    \E t \in Threads :
        \/ ThreadCall(t)
        \/ ThreadExistsRegistrationNumber(t)
        \/ ThreadExistsLicenseNumber(t)
        \/ ThreadInsert(t)
        \/ ThreadCommit(t)
        \/ ThreadReturn(t)

SpecThreads == Init /\ [][NextThreads]_vars

(***************************************************************************)
(* DatabaseConnection called from several threads (request threads, the    *)
(* shutdown hook).  A sqlite3 connection is the number of its creation;    *)
(* database.opened counts the sqlite3.connect calls and database.closed    *)
(* holds the connections on which close() has run.  A method is a sequence *)
(* of atomic steps; "with self._lock" is entered when the lock is free and *)
(* left on the way out of the block.                                       *)
(***************************************************************************)
MaxConnections == 2

\* a lock that every thread may enter at any time
can_acquire_always(lock) == TRUE

\* threading.Lock.acquire succeeds when no thread holds the lock
can_acquire(lock) == lock = "free"

At(t, position) == callers' = [callers EXCEPT ![t].pc = position]

\* a thread enters get_connection(), execute(sql) or close()
ConnectionCall(t) ==
    /\ callers[t].pc = "idle"
    /\ \E op \in {"get_connection", "execute", "close"} :
        /\ op = "close" => database.opened < MaxConnections
        /\ callers' = [callers EXCEPT ![t] = [pc |-> "acquire", op |-> op,
                                               conn |-> None, out |-> NoOut]]
    /\ UNCHANGED <<rows, seq, pc, call, prev, db, migrations, threads, pending,
                   database, ioc, resolvers>>

\* with self._lock:  (get_connection line 36, close line 51)
Acquire(t) ==
    /\ callers[t].pc = "acquire"
    /\ can_acquire(database.lock)
    /\ database' = [database EXCEPT !.lock = t]
    /\ At(t, "test")
    /\ UNCHANGED <<rows, seq, pc, call, prev, db, migrations, threads, pending,
                   ioc, resolvers>>

\* if self._connection is None:  (line 37) / if self._connection:  (line 52)
TestConnection(t) ==
    /\ callers[t].pc = "test"
    /\ callers' = [callers EXCEPT
                     ![t].conn = database.connection,
                     ![t].pc = IF callers[t].op = "close"
                               THEN (IF database.connection # None THEN "commit"
                                     ELSE "release")
                               ELSE (IF database.connection = None THEN "connect"
                                     ELSE "release")]
    /\ UNCHANGED <<rows, seq, pc, call, prev, db, migrations, threads, pending,
                   database, ioc, resolvers>>

\* self._connection = sqlite3.connect(...), the PRAGMA, the row factory
Connect(t) ==
    /\ callers[t].pc = "connect"
    /\ database' = [database EXCEPT !.opened = @ + 1, !.connection = database.opened + 1]
    /\ callers' = [callers EXCEPT ![t].conn = database.opened + 1, ![t].pc = "release"]
    /\ UNCHANGED <<rows, seq, pc, call, prev, db, migrations, threads, pending,
                   ioc, resolvers>>

\* close: self._connection.commit()
CloseCommit(t) ==
    /\ callers[t].pc = "commit"
    /\ At(t, "close")
    /\ UNCHANGED <<rows, seq, pc, call, prev, db, migrations, threads, pending,
                   database, ioc, resolvers>>

\* close: self._connection.close()
CloseConnection(t) ==
    /\ callers[t].pc = "close"
    /\ database' = [database EXCEPT !.closed = @ \cup {database.connection}]
    /\ At(t, "clear")
    /\ UNCHANGED <<rows, seq, pc, call, prev, db, migrations, threads, pending,
                   ioc, resolvers>>

\* close: self._connection = None
ClearConnection(t) ==
    /\ callers[t].pc = "clear"
    /\ database' = [database EXCEPT !.connection = None]
    /\ At(t, "release")
    /\ UNCHANGED <<rows, seq, pc, call, prev, db, migrations, threads, pending,
                   ioc, resolvers>>

\* the with block is left and the lock released
Release(t) ==
    /\ callers[t].pc = "release"
    /\ database' = [database EXCEPT !.lock = "free"]
    /\ At(t, "return")
    /\ UNCHANGED <<rows, seq, pc, call, prev, db, migrations, threads, pending,
                   ioc, resolvers>>

\* get_connection: return self._connection (line 47); close returns None.
\* The outcome records whether the connection handed over was open then.
ReturnConnection(t) ==
    LET c == callers[t]
        value == IF c.op = "close" THEN None ELSE database.connection
    IN  /\ c.pc = "return"
        /\ callers' = [callers EXCEPT
                         ![t].conn = value,
                         ![t].out = [kind |-> "value", value |-> value,
                                     open |-> value # None /\ value \notin database.closed],
                         ![t].pc = IF c.op = "execute" THEN "execute" ELSE "returned"]
        /\ UNCHANGED <<rows, seq, pc, call, prev, db, migrations, threads, pending,
                       database, ioc, resolvers>>

\* execute: conn.execute(sql, params) on what get_connection returned
ConnectionExecute(t) ==
    LET c == callers[t]
    IN  /\ c.pc = "execute"
        /\ callers' = [callers EXCEPT
                         ![t].out = IF c.conn = None
                                    THEN raise("AttributeError: 'NoneType' object has no attribute 'execute'", <<>>)
                                    ELSE IF c.conn \in database.closed
                                    THEN raise("ProgrammingError: Cannot operate on a closed database.", <<>>)
                                    ELSE [kind |-> "cursor", value |-> c.conn, open |-> TRUE],
                         ![t].pc = "returned"]
        /\ UNCHANGED <<rows, seq, pc, call, prev, db, migrations, threads, pending,
                       database, ioc, resolvers>>

\* the caller has taken the outcome
CallerReturn(t) ==
    /\ callers[t].pc = "returned"
    /\ callers' = [callers EXCEPT ![t] = IdleCaller]
    /\ UNCHANGED <<rows, seq, pc, call, prev, db, migrations, threads, pending,
                   database, ioc, resolvers>>

NextConnection ==
    \E t \in Threads :
        \/ ConnectionCall(t)
        \/ Acquire(t)
        \/ TestConnection(t)
        \/ Connect(t)
        \/ CloseCommit(t)
        \/ CloseConnection(t)
        \/ ClearConnection(t)
        \/ Release(t)
        \/ ReturnConnection(t)
        \/ ConnectionExecute(t)
        \/ CallerReturn(t)

SpecConnection == Init /\ [][NextConnection]_vars

(***************************************************************************)
(* DIContainer.  An object is the number of its construction (ioc.objects  *)
(* counts them); ioc.made[n] counts the calls of the factory of n and      *)
(* ioc.given[n] lists the objects resolve(n) has returned.  A dictionary   *)
(* is a function over Interfaces: _singletons holds None for a missing     *)
(* key, _factories whether the key is present, _singleton_flags <<>> for a *)
(* missing key.  The registrations are made while no thread resolves (the  *)
(* bootstrap), each name once; resolve is a sequence of atomic steps.      *)
(***************************************************************************)
MaxResolves == 3

\* DIContainer.is_registered
is_registered(c, interface) == c.factories[interface] \/ c.singletons[interface] # None

Bootstrapping(interface) ==
    /\ \A t \in Threads : resolvers[t].pc = "idle"
    /\ ~is_registered(ioc, interface)
    /\ ioc.singleton_flags[interface] = <<>>

\* DIContainer.register_singleton
RegisterSingleton ==
    /\ \E interface \in Interfaces :
        /\ Bootstrapping(interface)
        /\ ioc' = [ioc EXCEPT !.factories[interface] = TRUE,
                              !.singleton_flags[interface] = <<TRUE>>]
    /\ UNCHANGED <<rows, seq, pc, call, prev, db, migrations, threads, pending,
                   database, callers, resolvers>>

\* DIContainer.register_factory
RegisterFactory ==
    /\ \E interface \in Interfaces :
        /\ Bootstrapping(interface)
        /\ ioc' = [ioc EXCEPT !.factories[interface] = TRUE,
                              !.singleton_flags[interface] = <<FALSE>>]
    /\ UNCHANGED <<rows, seq, pc, call, prev, db, migrations, threads, pending,
                   database, callers, resolvers>>

\* DIContainer.register_instance, with an object built by the caller
RegisterInstance ==
    /\ \E interface \in Interfaces :
        /\ Bootstrapping(interface)
        /\ ioc' = [ioc EXCEPT !.objects = @ + 1,
                              !.singletons[interface] = ioc.objects + 1,
                              !.singleton_flags[interface] = <<TRUE>>]
    /\ UNCHANGED <<rows, seq, pc, call, prev, db, migrations, threads, pending,
                   database, callers, resolvers>>

\* a thread enters resolve(interface)
ResolveCall(t) ==
    /\ resolvers[t].pc = "idle"
    /\ \E interface \in Interfaces :
        /\ Len(ioc.given[interface]) < MaxResolves
        /\ resolvers' = [resolvers EXCEPT ![t] = [pc |-> "lookup", interface |-> interface,
                                                   instance |-> None, out |-> NoOut]]
    /\ UNCHANGED <<rows, seq, pc, call, prev, db, migrations, threads, pending,
                   database, callers, ioc>>

\* if interface in self._singletons: return self._singletons[interface]
Lookup(t) ==
    LET r == resolvers[t]
        cached == ioc.singletons[r.interface]
    IN  /\ r.pc = "lookup"
        /\ IF cached # None
           THEN /\ resolvers' = [resolvers EXCEPT ![t].pc = "returned",
                                                  ![t].instance = cached,
                                                  ![t].out = Value(cached)]
                /\ ioc' = [ioc EXCEPT !.given[r.interface] = Append(@, cached)]
           ELSE /\ resolvers' = [resolvers EXCEPT ![t].pc = "registered"]
                /\ UNCHANGED ioc
        /\ UNCHANGED <<rows, seq, pc, call, prev, db, migrations, threads, pending,
                       database, callers>>

\* if interface not in self._factories: raise KeyError(...)
CheckRegistered(t) ==
    LET r == resolvers[t]
    IN  /\ r.pc = "registered"
        /\ IF ioc.factories[r.interface]
           THEN resolvers' = [resolvers EXCEPT ![t].pc = "invoke"]
           ELSE resolvers' = [resolvers EXCEPT
                                ![t].pc = "returned",
                                ![t].out = raise("KeyError: [DIContainer] Dependency '{}' is not registered.", <<>>)]
        /\ UNCHANGED <<rows, seq, pc, call, prev, db, migrations, threads, pending,
                       database, callers, ioc>>

\* instance = self._factories[interface]()
Invoke(t) ==
    LET r == resolvers[t]
    IN  /\ r.pc = "invoke"
        /\ ioc' = [ioc EXCEPT !.objects = @ + 1, !.made[r.interface] = @ + 1]
        /\ resolvers' = [resolvers EXCEPT ![t].pc = "cache", ![t].instance = ioc.objects + 1]
        /\ UNCHANGED <<rows, seq, pc, call, prev, db, migrations, threads, pending,
                       database, callers>>

\* if self._singleton_flags.get(interface, False): self._singletons[interface] = instance
Cache(t) ==
    LET r == resolvers[t]
    IN  /\ r.pc = "cache"
        /\ ioc' = IF ioc.singleton_flags[r.interface] = <<TRUE>>
                  THEN [ioc EXCEPT !.singletons[r.interface] = r.instance]
                  ELSE ioc
        /\ resolvers' = [resolvers EXCEPT ![t].pc = "return"]
        /\ UNCHANGED <<rows, seq, pc, call, prev, db, migrations, threads, pending,
                       database, callers>>

\* return instance
ReturnInstance(t) ==
    LET r == resolvers[t]
    IN  /\ r.pc = "return"
        /\ resolvers' = [resolvers EXCEPT ![t].pc = "returned", ![t].out = Value(r.instance)]
        /\ ioc' = [ioc EXCEPT !.given[r.interface] = Append(@, r.instance)]
        /\ UNCHANGED <<rows, seq, pc, call, prev, db, migrations, threads, pending,
                       database, callers>>

\* the caller has taken the outcome
ResolverReturn(t) ==
    /\ resolvers[t].pc = "returned"
    /\ resolvers' = [resolvers EXCEPT ![t] = IdleResolver]
    /\ UNCHANGED <<rows, seq, pc, call, prev, db, migrations, threads, pending,
                   database, callers, ioc>>

NextContainer ==
    \/ RegisterSingleton
    \/ RegisterFactory
    \/ RegisterInstance
    \/ \E t \in Threads :
        \/ ResolveCall(t)
        \/ Lookup(t)
        \/ CheckRegistered(t)
        \/ Invoke(t)
        \/ Cache(t)
        \/ ReturnInstance(t)
        \/ ResolverReturn(t)

SpecContainer == Init /\ [][NextContainer]_vars

Next == RegisterHospital(Inputs) \/ RegisterAgain \/ Return

Spec == Init /\ [][Next]_vars

NextRanges == RegisterHospital(RangeInputs) \/ Return

SpecRanges == Init /\ [][NextRanges]_vars

NextSearch == Add(SearchedInputs) \/ Search \/ Return

SpecSearch == Init /\ [][NextSearch]_vars

NextExists == Add(RepoInputs) \/ ExistsRegistrationNumber \/ ExistsLicenseNumber \/ Return

SpecExists == Init /\ [][NextExists]_vars

NextRepo == RegisterHospital(RepoInputs) \/ Add(RepoInputs) \/ Update \/ IsFirstRun \/ Return

SpecRepo == Init /\ [][NextRepo]_vars

NextWeb == Index \/ Register \/ Dashboard \/ EditHospital \/ Return

SpecWeb == Init /\ [][NextWeb]_vars

NextMigrate == Migrate \/ MigrateAgain \/ Upgrade \/ Return

SpecMigrate == Init /\ [][NextMigrate]_vars

(***************************************************************************)
(* The twelve validation rules, each stated on its own.  A uniqueness rule *)
(* reads the value as the validator does (trimmed) and counts a stored     *)
(* record as a different record when its id differs from the entity's.     *)
(***************************************************************************)
Violates(k, h, rws) ==
    CASE k = 1  -> \E i \in 1..Len(mandatory(h)) : mandatory(h)[i].value = <<>>
      [] k = 2  -> ~(h.total_beds > 0)
      [] k = 3  -> ~(h.icu_beds >= 0)
      [] k = 4  -> ~(h.icu_beds <= h.total_beds)
      [] k = 5  -> ~(h.operation_theaters >= 0)
      [] k = 6  -> h.established_year < 1800 \/ h.established_year > 2026
      [] k = 7  -> ~EMAIL_RE(strip(h.email))
      [] k = 8  -> ~PHONE_RE(strip(h.phone_primary))
      [] k = 9  -> ~PHONE_RE(strip(h.emergency_contact))
      [] k = 10 -> ~PIN_RE(strip(h.pin_code))
      [] k = 11 -> \E r \in rws : r.id # h.id
                        /\ r.registration_number = strip(h.registration_number)
      [] k = 12 -> \E r \in rws : r.id # h.id
                        /\ r.license_number = strip(h.license_number)

ViolatedRules(h, rws) == {k \in 1..12 : Violates(k, h, rws)}

\* the rule a failure message names (0: not the message of a rule)
RuleOf(message) ==
    CASE message.text = "{} is required."                               -> 1
      [] message.text = "Total Beds must be greater than 0."            -> 2
      [] message.text = "ICU Beds cannot be negative."                  -> 3
      [] message.text = "ICU Beds cannot exceed Total Beds."            -> 4
      [] message.text = "Operation Theaters cannot be negative."        -> 5
      [] message.text = "Established Year must be between 1800 and {}." -> 6
      [] message.text = "Email address format is invalid."              -> 7
      [] message.text = "Primary Phone number format is invalid."       -> 8
      [] message.text = "Emergency Contact format is invalid."          -> 9
      [] message.text = "PIN Code format is invalid."                   -> 10
      [] message.text = "Registration Number '{}' is already in use."   -> 11
      [] message.text = "License Number '{}' is already in use."        -> 12
      [] OTHER -> 0

\* a register_hospital call has returned or raised
Registered == pc = "returned" /\ call.op = "register_hospital"

\* ... and no storage fault was injected into it
RegisteredNoFault == Registered /\ call.fault.point = "none"

(***************************************************************************)
(* C1: in every state reachable by register_hospital, add and update calls *)
(* no two stored records share a registration_number and no two share a    *)
(* license_number.                                                         *)
(***************************************************************************)
C1_UniqueNumbers ==
    \A r1 \in rows : \A r2 \in rows :
        r1 # r2 => /\ r1.registration_number # r2.registration_number
                   /\ r1.license_number # r2.license_number

\* two records are stored and an update that would have duplicated a
\* registration number has been refused by the table
C1_Witness ==
    /\ pc = "returned"
    /\ call.op = "update"
    /\ Cardinality(rows) = 2
    /\ call.out.kind = "raise"
    /\ call.out.message.arg = <<UNIQUE_REG>>

(***************************************************************************)
(* C2: for every input satisfying all twelve rules register_hospital       *)
(* returns success with an entity carrying an id, and exactly one new      *)
(* record is stored.                                                       *)
(***************************************************************************)
C2_ValidInputRegisters ==
    (RegisteredNoFault /\ ViolatedRules(call.h, call.before) = {})
        => /\ call.out.kind = "result"
           /\ call.out.success
           /\ call.out.data.id # None
           /\ call.out.data \in rows
           /\ call.out.data \notin call.before
           /\ rows = call.before \cup {call.out.data}

SameNumber(field, h, rws) == \E r \in rws : r[field] = h[field]

C4_DuplicateFailsOnRule ==
    /\ (/\ RegisteredNoFault
        /\ call.h.id = None
        /\ SameNumber("registration_number", call.h, call.before)
        /\ ~SameNumber("license_number", call.h, call.before)
        /\ ViolatedRules(call.h, call.before) \subseteq {11})
        => /\ call.out.kind = "result"
           /\ ~call.out.success
           /\ RuleOf(call.out.message) = 11
           /\ Cardinality({r \in rows :
                  r.registration_number = call.h.registration_number}) = 1
    /\ (/\ RegisteredNoFault
        /\ call.h.id = None
        /\ SameNumber("license_number", call.h, call.before)
        /\ ~SameNumber("registration_number", call.h, call.before)
        /\ ViolatedRules(call.h, call.before) \subseteq {12})
        => /\ call.out.kind = "result"
           /\ ~call.out.success
           /\ RuleOf(call.out.message) = 12
           /\ Cardinality({r \in rows :
                  r.license_number = call.h.license_number}) = 1

(***************************************************************************)
(* C5: the checks run in the order 1..12: a returned failure is that of    *)
(* the lowest-numbered violated rule, and no query is sent to the gateway  *)
(* after the first failing check.                                          *)
(***************************************************************************)
QueriesUpTo(k) ==
    IF k <= 10 THEN <<>>
    ELSE IF k = 11 THEN <<"exists_registration_number">>
    ELSE <<"exists_registration_number", "exists_license_number">>

C6_NeverRaises ==
    Registered
        => /\ call.out.kind = "result"
           /\ (\E i \in 1..Len(call.out.calls) : call.out.calls[i] = call.fault.point)
                => (~call.out.success /\ call.out.message.text = "Database error: {}")

(***************************************************************************)
(* C7: the message returned for a storage failure does not depend on the   *)
(* cause: the same call with another exception raised by the same gateway  *)
(* call returns the same message.                                          *)
(***************************************************************************)
C7_OpaqueMessage ==
    (/\ Registered
     /\ call.fault.point = "add"
     /\ \E i \in 1..Len(call.out.calls) : call.out.calls[i] = "add")
        => \A e \in IOErrors :
              register_hospital(call.h, call.before, seq, "add", e).out.message
                  = call.out.message

\* a migrate() call has returned or raised
MigrateDone == pc = "returned" /\ call.op = "migrate"

\* the version the ledger stood at when the call began
VersionBefore == Max(call.before.committed.ledger \cup {0})

\* the entries of MIGRATIONS that were pending when the call began
Pending == {i \in 1..Len(migrations) : migrations[i].version > VersionBefore}

Objects(m) == {m.statements[k].object : k \in 1..Len(m.statements)}

(***************************************************************************)
(* C8: each migration step is all-or-nothing: when a statement of          *)
(* migration v (or its ledger insert) fails, no effect of v's statements   *)
(* remains in the store after migrate() and the ledger has no row for v;   *)
(* when all succeed, the effects and the ledger row are all present.       *)
(***************************************************************************)
C8_AllOrNothing ==
    MigrateDone =>
        \A i \in Pending :
            LET m == migrations[i]
                left == (Objects(m) \cap db.committed.effects)
                            \ ensure_version_table(call.before).committed.effects
            IN  /\ (call.out.kind = "raise" /\ call.out.version = m.version)
                      => (left = {} /\ m.version \notin db.committed.ledger)
                /\ (\E j \in 1..Len(call.trace) :
                        call.trace[j] = Event(m.version, Len(m.statements) + 2, "commit"))
                      => (Objects(m) \subseteq db.committed.effects
                            /\ m.version \in db.committed.ledger)

(***************************************************************************)
(* C9: when a statement of migration v fails, migrate() rolls back, raises *)
(* to its caller and applies no migration with a greater version in that   *)
(* call; the ledger's maximum version stays at the last version applied    *)
(* successfully.                                                           *)
(***************************************************************************)
C9_AbortOnFailure ==
    (MigrateDone /\ call.fault.version > VersionBefore)
        => LET applied == {migrations[i].version : i \in
                             {j \in Pending : migrations[j].version < call.fault.version}}
           IN  /\ call.out = [kind |-> "raise", version |-> call.fault.version]
               /\ call.trace[Len(call.trace)] = Event(call.fault.version, 0, "rollback")
               /\ db.working = db.committed
               /\ ~db.in_transaction
               /\ \A j \in 1..Len(call.trace) : call.trace[j].version <= call.fault.version
               /\ db.committed.ledger = call.before.committed.ledger \cup applied
               /\ get_current_version(db) = Max(applied \cup {VersionBefore})

\* version 1 was applied and the commit of version 2 failed in one call,
\* with version 4 still pending behind it
C9_Witness ==
    /\ MigrateDone
    /\ Len(migrations) = 3
    /\ VersionBefore = 0
    /\ call.fault = [version |-> 2, step |-> 4]
    /\ call.out.kind = "raise"
    /\ db.committed.ledger = {1}

(***************************************************************************)
(* C10: migrate() is idempotent: run a second time on a store on which a   *)
(* first migrate() completed, it raises no error, applies no migration     *)
(* statement and leaves the ledger and the schema unchanged.               *)
(***************************************************************************)
C10_SecondRunNoOp ==
    (MigrateDone /\ call.again /\ prev.kind = "return")
        => /\ call.out.kind = "return"
           /\ call.trace = <<>>
           /\ db = call.before

\* the second run has returned on a store that the first run took through
\* three migrations
C10_Witness ==
    /\ MigrateDone
    /\ call.again
    /\ prev.kind = "return"
    /\ call.out.kind = "return"
    /\ db.committed.ledger = {1, 2, 4}

\* the steps of the call's trace that are of the given kind
StepsOf(what) == {j \in 1..Len(call.trace) : call.trace[j].what = what}

(***************************************************************************)
(* C11: over any sequence of migrate() calls, failed ones included, ledger *)
(* rows are inserted in strictly ascending version order, a version is     *)
(* recorded at most once and the statements of a recorded version are      *)
(* never executed again; a successful migrate() on an empty store leaves   *)
(* exactly one ledger row per defined migration.                           *)
(***************************************************************************)
C11_LedgerAscending ==
    MigrateDone =>
        /\ \A j \in StepsOf("insert version") :
              /\ call.trace[j].version \notin call.before.committed.ledger
              /\ call.trace[j].version > VersionBefore
              /\ \A k \in StepsOf("insert version") :
                    j < k => call.trace[j].version < call.trace[k].version
        /\ \A j \in StepsOf("statement") :
              call.trace[j].version \notin call.before.committed.ledger
        /\ call.before.committed.ledger \subseteq db.committed.ledger
        /\ (call.before.committed = EmptyStore /\ call.out.kind = "return")
              => /\ db.committed.ledger
                       = {migrations[i].version : i \in 1..Len(migrations)}
                 /\ Cardinality(StepsOf("insert version")) = Len(migrations)

\* a run that follows a run failed part-way has recorded versions 2 and 4
\* on top of version 1
C11_Witness ==
    /\ MigrateDone
    /\ call.again
    /\ prev.kind = "raise"
    /\ call.before.committed.ledger = {1}
    /\ call.out.kind = "return"
    /\ db.committed.ledger = {1, 2, 4}
    /\ Cardinality(StepsOf("insert version")) = 2

\* a request to one of the web routes has been answered
Answered(op) == pc = "returned" /\ call.op = op

(***************************************************************************)
(* C12: the service offers update_hospital, called by the edit route: an   *)
(* update of an existing record that keeps its own numbers and satisfies   *)
(* the other rules succeeds and persists the new values, and the update    *)
(* fails on a uniqueness rule iff a different record holds the value.      *)
(***************************************************************************)
C12_UpdateOffered ==
    (/\ Answered("edit_hospital")
     /\ call.method = "POST"
     /\ ~call.form.bad_number
     /\ find_by_id(call.before, call.hospital_id) # NoHospital)
        => LET updated == hospital_from_form(call.form.fd, call.hospital_id)
               violated == ViolatedRules(updated, call.before)
           IN  /\ call.out.kind # "raise"
               /\ violated = {}
                    => /\ call.out.kind = "redirect"
                       /\ updated \in rows
                       /\ Cardinality(rows) = Cardinality(call.before)
               /\ violated \subseteq {11, 12}
                    => (violated # {} <=> RuleOf(call.out.message) \in {11, 12})

(***************************************************************************)
(* C13: every service operation the presentation layers invoke is provided *)
(* by the concrete service: no request ends in a missing-operation error,  *)
(* and a request to the index route on a non-empty store is answered with  *)
(* the page of the search result.                                          *)
(***************************************************************************)
C13_OperationsProvided ==
    (pc = "returned" /\ call.op \in {"index", "register", "dashboard", "edit_hospital"})
        => /\ ~(call.out.kind = "raise" /\ call.out.target = "AttributeError")
           /\ (call.op = "index" /\ call.before # {})
                => (call.out.kind = "render" /\ call.out.target = "home.html")

(***************************************************************************)
(* C14: is_first_run() returns true exactly when the store holds no        *)
(* hospital record, active or inactive: true on the fresh store, false     *)
(* once a register_hospital has succeeded, false when every stored record  *)
(* is inactive.                                                            *)
(***************************************************************************)
C14_FirstRunIffEmpty ==
    /\ Answered("is_first_run") => (call.out.value <=> rows = {})
    /\ (Registered /\ call.out.kind = "result" /\ call.out.success)
          => ~is_first_run(rows)
    /\ seq > 0 => ~is_first_run(rows)

\* is_first_run() has answered false on a store whose records are all
\* inactive
C14_Witness ==
    /\ Answered("is_first_run")
    /\ ~call.out.value
    /\ rows # {}
    /\ \A r \in rows : ~r.is_active

\* both threads have come back from calls submitting the same number
BothDone(field) ==
    /\ \A t \in Threads : threads[t].pc = "done"
    /\ threads["t1"].h[field] = threads["t2"].h[field]

\* the thread's call went through both uniqueness queries to the INSERT
PassedPreCheck(t) ==
    \E i \in 1..Len(threads[t].calls) : threads[t].calls[i] = "add"

(***************************************************************************)
(* C15: of two register_hospital calls for the same registration_number    *)
(* (or license_number) whose statements interleave on the shared           *)
(* connection, at most one returns success and the other a failure result, *)
(* and at most one record carries the value, also when both calls pass the *)
(* uniqueness pre-check.                                                   *)
(***************************************************************************)
C15_OneWinner ==
    /\ \A field \in {"registration_number", "license_number"} :
          BothDone(field)
              => /\ \A t \in Threads : threads[t].out.kind = "result"
                 /\ \E t \in Threads : ~threads[t].out.success
                 /\ Cardinality({r \in rows \cup pending :
                        r[field] = threads["t1"].h[field]}) <= 1
    /\ \A r1 \in rows \cup pending : \A r2 \in rows \cup pending :
          r1 # r2 => /\ r1.registration_number # r2.registration_number
                     /\ r1.license_number # r2.license_number

\* both calls passed the pre-check for the same registration number; one
\* has registered, the INSERT of the other was refused by the table
C15_Witness ==
    /\ BothDone("registration_number")
    /\ \A t \in Threads : PassedPreCheck(t)
    /\ \E t \in Threads : threads[t].out.success
    /\ \E t \in Threads : /\ ~threads[t].out.success
                          /\ threads[t].out.message.arg = <<UNIQUE_REG>>
    /\ Cardinality(rows) = 1

(***************************************************************************)
(* C16: the identifier is immutable once assigned: register_hospital, add  *)
(* and update leave the id of an entity that carries one as it is, and no  *)
(* operation changes the id of a stored record.                            *)
(***************************************************************************)
C16_IdImmutable ==
    (pc = "returned" /\ call.op \in {"register_hospital", "add", "update"})
        => /\ (call.h.id # None /\ call.out.kind = "result" /\ call.out.success)
                => call.out.data.id = call.h.id
           /\ \A r \in call.before :
                \E r2 \in rows : /\ r2.id = r.id
                                 /\ (r2 = r \/ r.id = call.h.id)

(***************************************************************************)
(* C17: every record in the store, after any sequence of service           *)
(* operations, has total_beds > 0, 0 <= icu_beds <= total_beds,            *)
(* operation_theaters >= 0 and 1800 <= established_year <= 2026.           *)
(***************************************************************************)
C17_StoredRanges ==
    \A r \in rows :
        /\ r.total_beds > 0
        /\ 0 <= r.icu_beds
        /\ r.icu_beds <= r.total_beds
        /\ r.operation_theaters >= 0
        /\ 1800 <= r.established_year
        /\ r.established_year <= 2026

\* a record at the bounds (icu_beds = total_beds, year 1800) is stored and
\* an entity over the ICU bound has just been refused
C17_Witness ==
    /\ Registered
    /\ call.h.icu_beds > call.h.total_beds
    /\ ~call.out.success
    /\ rows = call.before
    /\ \E r \in rows : r.icu_beds = r.total_beds /\ r.established_year = 1800

(***************************************************************************)
(* C18: register_hospital fails for every input with icu_beds > total_beds *)
(* whatever the other fields are, and succeeds for an otherwise valid      *)
(* input with icu_beds = total_beds.                                       *)
(***************************************************************************)
C18_IcuBoundInclusive ==
    Registered
        => /\ call.h.icu_beds > call.h.total_beds
                => (call.out.kind = "result" /\ ~call.out.success /\ rows = call.before)
           /\ (/\ call.fault.point = "none"
               /\ call.h.icu_beds = call.h.total_beds
               /\ ViolatedRules(call.h, call.before) = {})
                => (call.out.kind = "result" /\ call.out.success)

(***************************************************************************)
(* C19: for an otherwise valid input register_hospital succeeds with       *)
(* established_year 1800 and with the current-year constant, and fails     *)
(* with 1799 and with the current-year constant + 1.                       *)
(***************************************************************************)
C19_YearBounds ==
    (RegisteredNoFault /\ ViolatedRules(call.h, call.before) \subseteq {6})
        => /\ call.out.kind = "result"
           /\ call.h.established_year \in {1800, current_year} => call.out.success
           /\ call.h.established_year \in {1799, current_year + 1}
                => (~call.out.success /\ RuleOf(call.out.message) = 6)

\* text contains sub as a literal substring, compared without regard to case
Contains(text, sub) ==
    \E i \in 0..(Len(text) - Len(sub)) :
        \A j \in 1..Len(sub) : fold(text[i + j]) = fold(sub[j])

\* the record satisfies every supplied criterion of the search call
Satisfies(r) ==
    /\ call.active_only => r.is_active
    /\ call.hospital_id # <<>> => r.id = call.hospital_id[1]
    /\ call.name # <<>> => Contains(r.hospital_name, call.name)
    /\ call.city # <<>> => Contains(r.city, call.city)

(***************************************************************************)
(* C20: search returns exactly the stored records that satisfy every       *)
(* supplied criterion (and is_active when active_only), each once, in      *)
(* ascending order of name; with no criteria and active_only=true it       *)
(* returns the active records, the same sequence as find_all(true).        *)
(***************************************************************************)
C20_SearchExact ==
    Answered("search")
        => LET found == call.out.value
           IN  /\ {found[i] : i \in 1..Len(found)} = {r \in rows : Satisfies(r)}
               /\ \A i \in 1..Len(found) : \A j \in 1..Len(found) :
                     i < j => /\ found[i] # found[j]
                              /\ ~text_less(found[j].hospital_name, found[i].hospital_name)
               /\ (/\ call.name = <<>>
                   /\ call.hospital_id = <<>>
                   /\ call.city = <<>>
                   /\ call.active_only)
                     => /\ found = find_all(rows, TRUE)
                        /\ {found[i] : i \in 1..Len(found)} = {r \in rows : r.is_active}

\* the records a search call returned
Found == {call.out.value[i] : i \in 1..Len(call.out.value)}

(***************************************************************************)
(* C21: a search by name alone (by city alone) returns exactly the records *)
(* whose name (city) contains the supplied text as a literal substring,    *)
(* compared without regard to case, no character of the text standing for  *)
(* any other; a search by id alone returns exactly the record of that id.  *)
(***************************************************************************)
C21_LiteralSubstring ==
    (Answered("search") /\ ~call.active_only)
        => /\ (call.name # <<>> /\ call.hospital_id = <<>> /\ call.city = <<>>)
                => Found = {r \in rows : Contains(r.hospital_name, call.name)}
           /\ (call.city # <<>> /\ call.hospital_id = <<>> /\ call.name = <<>>)
                => Found = {r \in rows : Contains(r.city, call.city)}
           /\ (call.hospital_id # <<>> /\ call.name = <<>> /\ call.city = <<>>)
                => Found = {r \in rows : r.id = call.hospital_id[1]}

\* some stored record other than the excluded one holds the value in field
HeldByAnother(field) ==
    \E r \in rows : /\ r[field] = call.value
                    /\ (call.exclude_id # None => r.id # call.exclude_id)

(***************************************************************************)
(* C22: exists_registration_number(value, exclude_id) and                  *)
(* exists_license_number(value, exclude_id) answer true iff some stored    *)
(* record, active or not, whose id differs from exclude_id (any record     *)
(* when exclude_id is absent) has exactly that value; the calls leave the  *)
(* stored records as they were.                                            *)
(***************************************************************************)
C22_ExistsExact ==
    /\ Answered("exists_registration_number")
          => /\ rows = call.before
             /\ call.out.kind = "value"
                  => (call.out.value <=> HeldByAnother("registration_number"))
    /\ Answered("exists_license_number")
          => /\ rows = call.before
             /\ call.out.kind = "value"
                  => (call.out.value <=> HeldByAnother("license_number"))

\* two records are stored; the value is held by the excluded record, which
\* is inactive, and by no other: the check answers false
C22_Witness ==
    /\ Answered("exists_registration_number")
    /\ call.out.kind = "value"
    /\ call.exclude_id = 1
    /\ Cardinality(rows) = 2
    /\ \E r \in rows : r.id = 1 /\ ~r.is_active /\ r.registration_number = call.value
    /\ ~call.out.value

\* the records other than the one whose id the updated entity carries
Others(rws) == {r \in rws : r.id # call.h.id}

(***************************************************************************)
(* C23: update(hospital) with an absent id raises the precondition error   *)
(* (an exception, not a failure result) before any statement is executed   *)
(* and leaves every stored record unchanged; with the id of a stored       *)
(* record it changes at most that record, whose id stays, and leaves all   *)
(* other records unchanged.                                                *)
(***************************************************************************)
C23_UpdatePrecondition ==
    Answered("update")
        => /\ call.h.id = None
                => /\ call.out.kind = "raise"
                   /\ call.out.message
                        = Msg("", <<"ValueError: Cannot update a Hospital without an id.">>, 0)
                   /\ call.out.calls = <<>>
                   /\ rows = call.before
           /\ (\E r \in call.before : r.id = call.h.id)
                => /\ Others(rows) = Others(call.before)
                   /\ Cardinality(rows) = Cardinality(call.before)
                   /\ \E r \in rows : r.id = call.h.id
                   /\ call.out.kind = "result"
                        => \A r \in rows : r.id = call.h.id => r = call.h

\* two records are stored and update has rewritten the fields of one of them
C23_Witness ==
    /\ Answered("update")
    /\ call.out.kind = "result"
    /\ Cardinality(call.before) = 2
    /\ rows # call.before
    /\ Others(rows) # {}

(***************************************************************************)
(* C24: no request to the web routes, and so no call of the service they   *)
(* make, removes a stored record or turns a stored record's is_active from *)
(* true to false: the number of stored records never decreases, every      *)
(* record keeps its id, and every record the register route created        *)
(* through register_hospital is and stays active.                          *)
(***************************************************************************)
C24_NeverRemoved ==
    /\ [](\A r \in rows : r.is_active)
    /\ [][/\ Cardinality(rows') >= Cardinality(rows)
          /\ \A r \in rows : \E n \in rows' :
                n.id = r.id /\ (r.is_active => n.is_active)]_vars

\* two records are stored and an edit of one of them has been posted
C24_Witness ==
    /\ Answered("edit_hospital")
    /\ call.method = "POST"
    /\ ~call.form.bad_number
    /\ Cardinality(rows) = 2
    /\ \E r \in rows : r.id = call.hospital_id

\* the versions for which the call ran a statement, a ledger insert or a commit
Touched == {call.trace[j].version : j \in 1..Len(call.trace)}

(***************************************************************************)
(* C25: migrations are selected by version number alone, contiguous or     *)
(* not: when migrate() returns without error, every entry of MIGRATIONS    *)
(* whose version is greater than the ledger's maximum at the start of the  *)
(* call has been applied and recorded, and no entry whose version is less  *)
(* than or equal to that maximum has been touched.                         *)
(***************************************************************************)
C25_SelectedByVersion ==
    (MigrateDone /\ call.out.kind = "return")
        => \A i \in 1..Len(migrations) :
              LET m == migrations[i]
              IN  IF m.version > VersionBefore
                  THEN /\ m.version \in db.committed.ledger
                       /\ Objects(m) \ {""} \subseteq db.committed.effects
                       /\ \E j \in 1..Len(call.trace) :
                             call.trace[j] = Event(m.version, Len(m.statements) + 2, "commit")
                  ELSE m.version \notin Touched

\* the store was at version 2 and the release defines versions 1, 2 and 4:
\* the call applied version 4 across the gap and skipped 1 and 2
C25_Witness ==
    /\ MigrateDone
    /\ call.out.kind = "return"
    /\ VersionBefore = 2
    /\ {migrations[i].version : i \in 1..Len(migrations)} = {1, 2, 4}
    /\ Touched = {4}
    /\ db.committed.ledger = {1, 2, 4}

\* a thread has come back from get_connection (or from the get_connection
\* that execute calls first)
Received(t) ==
    /\ callers[t].op \in {"get_connection", "execute"}
    /\ callers[t].pc \in {"execute", "returned"}
    /\ callers[t].out.kind = "value"

(***************************************************************************)
(* C26: the storage connection is a lazily created singleton guarded by    *)
(* the lock: no connection exists until a get_connection call creates it,  *)
(* and as long as no connection has been closed, however the concurrent    *)
(* get_connection calls interleave, at most one connection has been        *)
(* created and every caller has received that one.                         *)
(***************************************************************************)
C26_LazySingleton ==
    /\ [](database.closed = {}
            => /\ database.opened <= 1
               /\ database.connection \in {None, 1}
               /\ \A t \in Threads : Received(t) => callers[t].out.value = 1)
    /\ [][database.opened' # database.opened
            => \E t \in Threads : /\ callers[t].op \in {"get_connection", "execute"}
                                  /\ callers[t].pc = "connect"
                                  /\ database.lock = t]_vars

\* two get_connection calls overlapped on a fresh object: one created the
\* connection, and both have received it
C26_Witness ==
    /\ database.closed = {}
    /\ database.opened = 1
    /\ \A t \in Threads : /\ callers[t].op = "get_connection"
                           /\ callers[t].pc = "returned"
                           /\ callers[t].out.value = 1

(***************************************************************************)
(* C29: get_connection() always returns an open connection, never the      *)
(* absent value, however it interleaves with a concurrent close(): what a  *)
(* caller receives is a connection that close() had not torn down when it  *)
(* was handed over, and execute never runs on an absent or closed one.     *)
(***************************************************************************)
C29_ReturnsOpenConnection ==
    \A t \in Threads :
        /\ Received(t) => (callers[t].out.value # None /\ callers[t].out.open)
        /\ (callers[t].op = "execute" /\ callers[t].pc = "returned")
              => callers[t].out.kind # "raise"

\* the objects resolve(interface) has handed out
Given(interface) == {ioc.given[interface][i] : i \in 1..Len(ioc.given[interface])}

(***************************************************************************)
(* C27: the container is thread-safe for singleton registrations: however  *)
(* the concurrent resolve(name) calls interleave, the factory of a name    *)
(* registered with register_singleton is called at most once and every     *)
(* caller receives the same object; a name registered with                 *)
(* register_instance always resolves to the same object, and one           *)
(* registered with register_factory to a fresh object on every call.       *)
(***************************************************************************)
C27_SingletonOnce ==
    \A n \in Interfaces :
        /\ (ioc.singleton_flags[n] = <<TRUE>> /\ ioc.factories[n])
              => (ioc.made[n] <= 1 /\ Cardinality(Given(n)) <= 1)
        /\ (ioc.singleton_flags[n] = <<TRUE>> /\ ~ioc.factories[n])
              => (ioc.made[n] = 0 /\ Cardinality(Given(n)) <= 1)
        /\ ioc.singleton_flags[n] = <<FALSE>>
              => (Cardinality(Given(n)) = Len(ioc.given[n]) /\ ioc.made[n] >= Len(ioc.given[n]))

(***************************************************************************)
(* C28: in a single-threaded execution, whenever the validation pipeline   *)
(* has passed for a hospital, the gateway add of that hospital that        *)
(* follows does not fail on a unique constraint: register_hospital never   *)
(* answers with the database error of a UNIQUE violation.                  *)
(***************************************************************************)
C28_PreCheckSuffices ==
    (/\ RegisteredNoFault
     /\ \E i \in 1..Len(call.out.calls) : call.out.calls[i] = "add")
        => ~(/\ ~call.out.success
             /\ call.out.message.text = "Database error: {}"
             /\ call.out.message.arg \in {<<UNIQUE_REG>>, <<UNIQUE_LICENSE>>})

\* update was called with an id that no stored record had, and storage worked
UpdatedNoMatch ==
    /\ Answered("update")
    /\ call.fault.point = "none"
    /\ call.h.id # None
    /\ \A r \in call.before : r.id # call.h.id

(***************************************************************************)
(* C30: update(hospital) with an id that matches no stored record changes  *)
(* no row, creates no record and returns the entity without any error:     *)
(* the caller gets what a successful update of a stored record returns.    *)
(***************************************************************************)
C30_SilentNoMatch ==
    UpdatedNoMatch
        => /\ rows = call.before
           /\ call.out.kind = "result"
           /\ call.out.success
           /\ call.out.data = call.h
           /\ LET stored == update(call.h, {call.h}, seq, "none", call.fault.exc, <<>>).out
              IN  stored.kind = "result" => call.out = stored

\* one record is stored under id 1 and an entity with id 2, whose bed count
\* no stored row could have, was passed to update
C30_Witness ==
    /\ UpdatedNoMatch
    /\ call.h.id = 2
    /\ call.h.total_beds = 0
    /\ Cardinality(rows) = 1
    /\ call.out.kind = "result"
====
